---- MODULE Spec2Model ----
(***************************************************************************)
(* Redirect checker (src/index.js): the batch scheduler processUrls, the   *)
(* redirect resolver checkURL, the validity policy isRedirectValid and the *)
(* header fetcher getHeaders, as one state machine.                        *)
(*                                                                         *)
(* Granularity: one action is one turn of the Node event loop, that is one *)
(* I/O or timer callback together with every promise continuation          *)
(* (microtask) it triggers.  JavaScript runs such a turn to completion, so *)
(* the states between actions are exactly the states in which another      *)
(* callback can run.  The model is untimed: timers and responses fire in   *)
(* any order.                                                              *)
(***************************************************************************)
EXTENDS Integers, Sequences, FiniteSets, TLC

(* ------------------------------ bounds -------------------------------- *)
\* longest input list of a batch run
MaxRows == 4
\* largest configured CONFIG.CHUNK_SIZE
MaxChunkSize == 2
\* largest configured CONFIG.MAX_REDIRECTIONS
MaxMaxRedirections == 3
\* request errors and idle timeouts the network may cause during a batch run
\* (a failure of a batch row then comes from an unparseable URL)
MaxFaults == 0
\* longest input list of a run whose rows all resolve
MaxReportRows == 3

(* ------------------------- program constants -------------------------- *)
MAX_RETRIES == 3
INITIAL_BACKOFF == 1000
CHUNK_DELAY == 2000
REQUEST_TIMEOUT == 10000
OK == 200
PERMANENT_REDIRECT == <<301, 308>>

(* ------------------------------ values -------------------------------- *)
null == "null"
undefined == "undefined"
\* JavaScript truthiness of a string-or-absent value (!v)
Falsy(v) == v \in {"", undefined, null}

\* absolute URLs that new URL() parses; BadUrl is a string it throws on
Urls == {"a", "b", "c"}
BadUrl == "bad"
\* new URL(urlToParse) succeeds
Parseable(u) == u \in Urls

StatusCodes == {200, 204, 301, 302, 308}
\* res.headers.location as the server sent it: absent, or a string
RawLocations == {undefined} \cup Urls \cup {BadUrl}
Responses == [statusCode : StatusCodes, location : RawLocations]

\* error.code of a request 'error' event
TransientCodes == {"ECONNRESET", "ENOMEM"}
ErrorCodes == TransientCodes \cup {"ENOTFOUND"}
ERR_INVALID_URL == "ERR_INVALID_URL"

\* a.localeCompare(b) on the model's URL strings, as a rank
SourceRank(s) == CASE s = "a" -> 1 [] s = "b" -> 2 [] s = BadUrl -> 3 [] s = "c" -> 4 [] OTHER -> 0
localeCompare(a, b) == IF SourceRank(a) < SourceRank(b) THEN -1 ELSE IF SourceRank(a) > SourceRank(b) THEN 1 ELSE 0

(* --------------------------- validity policy -------------------------- *)
\* redirectsList[0]?.code : undefined (0 here) on an empty list
FirstCode(redirectsList) == IF Len(redirectsList) > 0 THEN redirectsList[1].code ELSE 0

isRedirectValid_NoStatus(currentUrl, targetUrl, redirectsList, redirectCount, finalStatusCode) ==
    /\ currentUrl = targetUrl
    /\ redirectCount = 1
    /\ \/ FirstCode(redirectsList) = PERMANENT_REDIRECT[1]
       \/ FirstCode(redirectsList) = PERMANENT_REDIRECT[2]

isRedirectValid(currentUrl, targetUrl, redirectsList, redirectCount, finalStatusCode) ==
    /\ currentUrl = targetUrl
    /\ redirectCount = 1
    /\ \/ FirstCode(redirectsList) = PERMANENT_REDIRECT[1]
       \/ FirstCode(redirectsList) = PERMANENT_REDIRECT[2]
    /\ finalStatusCode = OK

(* --------------------- one resolution (checkURL) ---------------------- *)
(* A task is one invocation of the chunk callback for one row: the closure *)
(* of checkURL (src, dest_wanted, redirectionsList, redirectionsCount),    *)
(* the closure of the getHeaders call in progress (urlToParse,             *)
(* retryCount, the timeout option of its request, the backoff wait) and    *)
(* the state of its promise.                                               *)
(*   st: "idle"     the row's callback has not run                         *)
(*       "skipped"  the callback returned at the empty-URL guard           *)
(*       "request"  a request is in flight                                 *)
(*       "backoff"  the retry timer is pending                             *)
(*       "resolved" checkURL resolved with result[1]                       *)
(*       "rejected" checkURL rejected with error                           *)
(* History fields, not read by the program: requests, fails and waits of   *)
(* the getHeaders call in progress, fetches (getHeaders calls made by      *)
(* check), settles (calls of checkURL's resolve or reject), terminal (the  *)
(* branch that resolved), fetchError (the error of the getHeaders call     *)
(* that rejected, if one did) and settledFetch (the getHeaders calls that  *)
(* settled in the latest turn of the event loop, in order).                *)
IdleTask ==
    [st |-> "idle", src |-> "", dest_wanted |-> "", URLToCheck |-> "",
     redirectionsList |-> <<>>, redirectionsCount |-> 0,
     urlToParse |-> "", retryCount |-> 0, backoffTime |-> 0, timeout |-> 0, timedOut |-> FALSE,
     result |-> <<>>, error |-> "",
     requests |-> 0, fails |-> 0, waits |-> 0, fetches |-> 0, settles |-> 0,
     terminal |-> "", fetchError |-> "", settledFetch |-> <<>>]

\* the record of a getHeaders call that has just settled
FetchRecord(t, outcome, headers, error) ==
    [url |-> t.urlToParse, outcome |-> outcome,
     statusCode |-> headers.statusCode, location |-> headers.location,
     error |-> error, requests |-> t.requests, fails |-> t.fails, waits |-> t.waits]

NoHeaders == [statusCode |-> 0, location |-> null]

\* a getHeaders call settled: its record is kept for this turn and its closure
\* (urlToParse, retryCount, the request) is gone
endFetch(t, outcome, headers, error) ==
    [t EXCEPT !.settledFetch = Append(@, FetchRecord(t, outcome, headers, error)),
              !.fetchError = IF outcome = "rejected" THEN error ELSE @,
              !.urlToParse = "", !.retryCount = 0, !.backoffTime = 0, !.timeout = 0,
              !.timedOut = FALSE,
              !.requests = 0, !.fails = 0, !.waits = 0]

\* resolve({...}) of checkURL
resolveOutcome(t, outcome, branch) ==
    [t EXCEPT !.st = "resolved", !.result = <<outcome>>, !.settles = @ + 1, !.terminal = branch]

\* catch (error) { reject(error) } of check: the awaited getHeaders rejected
checkCatch_Swallow(t, error) ==
    [t EXCEPT !.st = "resolved", !.settles = @ + 1, !.terminal = "natural",
              !.result = <<[code |-> 0, source |-> t.src, dest_wanted |-> t.dest_wanted,
                            dest_actual |-> t.URLToCheck, redirectCounter |-> t.redirectionsCount,
                            redirectsList |-> t.redirectionsList, is_valid |-> FALSE]>>]

checkCatch(t, error) ==
    [t EXCEPT !.st = "rejected", !.error = error, !.settles = @ + 1]

\* reject(error) of getHeaders, received by the catch of the awaiting check
rejectHeaders(t, error) == checkCatch(endFetch(t, "rejected", NoHeaders, error), error)

\* getHeaders(urlToParse, retryCount) up to req.end(): parse the URL and issue
\* the request, or reject at once when new URL() throws
getHeaders(t, urlToParse, retryCount) ==
    LET t1 == [t EXCEPT !.urlToParse = urlToParse, !.retryCount = retryCount]
    IN  IF Parseable(urlToParse)
        THEN [t1 EXCEPT !.st = "request", !.timeout = REQUEST_TIMEOUT, !.timedOut = FALSE,
                        !.requests = @ + 1]
        ELSE rejectHeaders(t1, ERR_INVALID_URL)

\* the hop-limit test of check
HopLimitReached_Strict(redirectionsCount, maxRedirections) == redirectionsCount > maxRedirections

HopLimitReached_Never(redirectionsCount, maxRedirections) == FALSE

HopLimitReached(redirectionsCount, maxRedirections) == redirectionsCount >= maxRedirections

\* check(headers) up to its await: headers is <<>> for null, else <<h>>
\* (first with redirectionsCount++ outside the if of the push)
check_CountAlways(t, headers, maxRedirections) ==
    LET URLToCheck == IF headers # <<>> THEN headers[1].location ELSE t.src
        push == headers # <<>> /\ ~Falsy(headers[1].location)
        t0 == [t EXCEPT !.redirectionsCount = @ + 1, !.URLToCheck = URLToCheck]
        t1 == IF push
              THEN [t0 EXCEPT !.redirectionsList =
                                  Append(@, [location |-> headers[1].location,
                                             code |-> headers[1].statusCode])]
              ELSE t0
    IN  IF headers # <<>> /\ HopLimitReached(t1.redirectionsCount, maxRedirections)
        THEN resolveOutcome(t1,
                 [code |-> headers[1].statusCode, source |-> t1.src,
                  dest_wanted |-> t1.dest_wanted, dest_actual |-> headers[1].location,
                  redirectCounter |-> t1.redirectionsCount,
                  redirectsList |-> t1.redirectionsList, is_valid |-> FALSE],
                 "hoplimit")
        ELSE getHeaders([t1 EXCEPT !.fetches = @ + 1], URLToCheck, 0)

check(t, headers, maxRedirections) ==
    LET URLToCheck == IF headers # <<>> THEN headers[1].location ELSE t.src
        push == headers # <<>> /\ ~Falsy(headers[1].location)
        t1 == IF push
              THEN [t EXCEPT !.redirectionsList =
                                 Append(@, [location |-> headers[1].location,
                                            code |-> headers[1].statusCode]),
                             !.redirectionsCount = @ + 1,
                             !.URLToCheck = URLToCheck]
              ELSE [t EXCEPT !.URLToCheck = URLToCheck]
    IN  IF headers # <<>> /\ HopLimitReached(t1.redirectionsCount, maxRedirections)
        THEN resolveOutcome(t1,
                 [code |-> headers[1].statusCode, source |-> t1.src,
                  dest_wanted |-> t1.dest_wanted, dest_actual |-> headers[1].location,
                  redirectCounter |-> t1.redirectionsCount,
                  redirectsList |-> t1.redirectionsList, is_valid |-> FALSE],
                 "hoplimit")
        ELSE getHeaders([t1 EXCEPT !.fetches = @ + 1], URLToCheck, 0)

\* the rest of check after `await getHeaders(URLToCheck)` resolved with headers
checkContinue(t, headers, maxRedirections) ==
    LET t1 == endFetch([t EXCEPT !.settledFetch = <<>>], "resolved", headers, "")
    IN  IF ~Falsy(headers.location)
        THEN check(t1, <<headers>>, maxRedirections)
        ELSE resolveOutcome(t1,
                 [code |-> headers.statusCode, source |-> t1.src,
                  dest_wanted |-> t1.dest_wanted, dest_actual |-> t1.URLToCheck,
                  redirectCounter |-> t1.redirectionsCount,
                  redirectsList |-> t1.redirectionsList,
                  is_valid |-> isRedirectValid(t1.URLToCheck, t1.dest_wanted,
                                               t1.redirectionsList, t1.redirectionsCount,
                                               headers.statusCode)],
                 "natural")

\* checkURL(src, dest_wanted, maxRedirections): the first call check(null)
checkURL(src, dest_wanted, maxRedirections) ==
    check([IdleTask EXCEPT !.src = src, !.dest_wanted = dest_wanted], <<>>, maxRedirections)

(* --------------------------- header fetcher --------------------------- *)
\* res.on("end"): resolve({statusCode, location: res.headers.location || null})
HopResult(res) ==
    [statusCode |-> res.statusCode,
     location |-> IF Falsy(res.location) THEN null ELSE res.location]

\* the retry test of req.on("error")
ShouldRetry_Always(code, retryCount) == code \in TransientCodes

ShouldRetry_AnyCode(code, retryCount) == retryCount < MAX_RETRIES

ShouldRetry(code, retryCount) == code \in TransientCodes /\ retryCount < MAX_RETRIES

\* CONFIG.INITIAL_BACKOFF * Math.pow(2, retryCount)
BackoffTime_Linear(retryCount) == INITIAL_BACKOFF * (retryCount + 1)

BackoffTime(retryCount) == INITIAL_BACKOFF * (2 ^ retryCount)

\* req.on("error", ...) up to its await of the backoff timer, or its reject
onRequestError(t, code) ==
    LET t1 == [t EXCEPT !.settledFetch = <<>>,
                        !.fails = IF code \in TransientCodes THEN @ + 1 ELSE @]
    IN  IF ShouldRetry(code, t.retryCount)
        THEN [t1 EXCEPT !.st = "backoff", !.backoffTime = BackoffTime(t.retryCount),
                        !.waits = @ + 1]
        ELSE rejectHeaders(t1, code)

\* the backoff timer fired: getHeaders(urlToParse, retryCount + 1)
onBackoffElapsed(t) ==
    getHeaders([t EXCEPT !.backoffTime = 0, !.settledFetch = <<>>], t.urlToParse, t.retryCount + 1)


(* --------------------------- report and sort -------------------------- *)
EmptyReport == [result |-> [valid |-> 0, invalid |-> 0, total |-> 0], urls |-> <<>>]

\* the chunk callback after `await checkURL(...)` returned parsedURL
recordOutcome_NoPush(rep, parsedURL) ==
    LET r1 == [rep.result EXCEPT !.total = @ + 1]
        r2 == IF parsedURL.is_valid THEN [r1 EXCEPT !.valid = @ + 1]
                                    ELSE [r1 EXCEPT !.invalid = @ + 1]
    IN  [result |-> r2, urls |-> IF parsedURL.is_valid THEN Append(rep.urls, parsedURL) ELSE rep.urls]

recordOutcome(rep, parsedURL) ==
    LET r1 == [rep.result EXCEPT !.total = @ + 1]
        r2 == IF parsedURL.is_valid THEN [r1 EXCEPT !.valid = @ + 1]
                                    ELSE [r1 EXCEPT !.invalid = @ + 1]
    IN  [result |-> r2, urls |-> Append(rep.urls, parsedURL)]

\* the comparator of the final sort: invalid first, then by source
compareUrls_NoSource(a, b) ==
    IF a.is_valid # b.is_valid
    THEN (IF a.is_valid THEN 1 ELSE -1)
    ELSE 0

compareUrls(a, b) ==
    IF a.is_valid # b.is_valid
    THEN (IF a.is_valid THEN 1 ELSE -1)
    ELSE localeCompare(a.source, b.source)

\* Array.prototype.sort is stable: insertion from the left, as indices into urls
RECURSIVE InsertSorted(_, _, _)
InsertSorted(s, x, urls) ==
    IF s = <<>> THEN <<x>>
    ELSE IF compareUrls(urls[x], urls[s[Len(s)]]) < 0
         THEN Append(InsertSorted(SubSeq(s, 1, Len(s) - 1), x, urls), s[Len(s)])
         ELSE Append(s, x)

RECURSIVE SortedIndices(_, _)
SortedIndices(n, urls) ==
    IF n = 0 THEN <<>> ELSE InsertSorted(SortedIndices(n - 1, urls), n, urls)

\* .map((url) => ({...url, status: url.is_valid ? "ok" : "ko"}))
formatUrl(url) ==
    [code |-> url.code, source |-> url.source, dest_wanted |-> url.dest_wanted,
     dest_actual |-> url.dest_actual, redirectCounter |-> url.redirectCounter,
     redirectsList |-> url.redirectsList, is_valid |-> url.is_valid,
     status |-> IF url.is_valid THEN "valid" ELSE "invalid"]

\* finalReport = {result: report.result, urls: formattedUrls}
makeFinalReport(rep) ==
    LET perm == SortedIndices(Len(rep.urls), rep.urls)
    IN  [result |-> rep.result,
         urls |-> [j \in 1..Len(rep.urls) |-> formatUrl(rep.urls[perm[j]])]]

(* ------------------------------- state -------------------------------- *)
VARIABLES
    data,         \* the parsed rows, [src, destination] each
    CONFIG,       \* [CHUNK_SIZE, MAX_REDIRECTIONS]
    net,          \* URL -> <<>> (not yet observed) or <<response>>: a static network
    faultsLeft,   \* request errors and idle timeouts the network may still cause
    pc,           \* main: "getData", "awaitChunk", "delay", "done", "exit"
    delayMs,      \* the ms of the pending delay(ms) timer of processUrls, 0 when none
    i,            \* the loop index of processUrls
    task,         \* row number -> task
    report,       \* the report object processUrls mutates
    rows,         \* history: the row number of each entry of report.urls
    finalReport,  \* <<>> or <<the report written to the file>>
    finalRows     \* history: the row number of each entry of finalReport.urls

vars == <<data, CONFIG, net, faultsLeft, pc, delayMs, i, task, report, rows, finalReport, finalRows>>

Rows == 1..Len(data)

\* data.slice(i0, i0 + CHUNK_SIZE), as row numbers
ChunkRows_FromStart(i0) == {k \in Rows : k <= i0 + CONFIG.CHUNK_SIZE}

ChunkRows(i0) == {k \in Rows : i0 < k /\ k <= i0 + CONFIG.CHUNK_SIZE}

\* the chunk of a row, from 0
ChunkOf(k) == (k - 1) \div CONFIG.CHUNK_SIZE

\* a task another row's turn leaves alone: its settledFetch is of an older turn
Older(t) == [t EXCEPT !.settledFetch = <<>>]

InFlight(t) == t.st \in {"request", "backoff"}

\* the chunk callback calling a checkURL whose redirectionsList and
\* redirectionsCount are hoisted out of its closure: a call starts from what
\* the latest recorded resolution left
startCallback_SharedChain(item) ==
    LET last == IF Len(report.urls) > 0 THEN report.urls[Len(report.urls)].redirectsList ELSE <<>>
    IN  IF Falsy(item.src) \/ Falsy(item.destination)
        THEN [IdleTask EXCEPT !.st = "skipped"]
        ELSE check([IdleTask EXCEPT !.src = item.src, !.dest_wanted = item.destination,
                                    !.redirectionsList = last, !.redirectionsCount = Len(last)],
                   <<>>, CONFIG.MAX_REDIRECTIONS)

\* the chunk callback up to its first await
startCallback_NoSkip(item) ==
    checkURL(item.src, item.destination, CONFIG.MAX_REDIRECTIONS)

startCallback(item) ==
    IF Falsy(item.src) \/ Falsy(item.destination)
    THEN [IdleTask EXCEPT !.st = "skipped"]
    ELSE checkURL(item.src, item.destination, CONFIG.MAX_REDIRECTIONS)

\* await Promise.all(...) inside try/catch, then await delay: where main stands
\* once the callbacks of chunk i0 are in the states tk
awaitAll(i0, tk) ==
    IF \E k \in ChunkRows(i0) : tk[k].st = "rejected" THEN "delay"
    ELSE IF \A k \in ChunkRows(i0) : tk[k].st \in {"skipped", "resolved"} THEN "delay"
    ELSE "awaitChunk"

\* one iteration of the for loop of processUrls from index i0, or its return
\* followed by the sort and the write of the report
LoopFrom(i0) ==
    /\ i' = i0
    /\ IF i0 < Len(data)
       THEN /\ task' = [k \in Rows |-> IF k \in ChunkRows(i0) THEN startCallback(data[k]) ELSE Older(task[k])]
            /\ pc' = awaitAll(i0, task')
            /\ delayMs' = IF pc' = "delay" THEN CHUNK_DELAY ELSE 0
            /\ UNCHANGED <<finalReport, finalRows>>
       ELSE /\ pc' = "done"
            /\ delayMs' = 0
            /\ finalReport' = <<makeFinalReport(report)>>
            /\ finalRows' = [j \in 1..Len(rows) |-> rows[SortedIndices(Len(report.urls), report.urls)[j]]]
            /\ task' = [k \in Rows |-> Older(task[k])]
    /\ UNCHANGED <<data, CONFIG, net, faultsLeft, report, rows>>

\* a turn of row k's resolution that leaves its task as t2: the callback
\* continues when checkURL settled, and Promise.all may settle
TaskTurn(k, t2) ==
    /\ task' = [k2 \in Rows |-> IF k2 = k THEN t2 ELSE Older(task[k2])]
    /\ IF t2.st = "resolved"
       THEN /\ report' = recordOutcome(report, t2.result[1])
            /\ rows' = Append(rows, k)
       ELSE UNCHANGED <<report, rows>>
    /\ pc' = IF pc = "awaitChunk" THEN awaitAll(i, task') ELSE pc
    /\ delayMs' = IF pc = "awaitChunk" /\ pc' = "delay" THEN CHUNK_DELAY ELSE delayMs
    /\ UNCHANGED <<data, CONFIG, i, finalReport, finalRows>>

(* ------------------------------ actions ------------------------------- *)
\* getData's "end" event, then main up to the first await inside processUrls
getData ==
    /\ pc = "getData"
    /\ IF Len(data) = 0
       THEN /\ pc' = "exit"
            /\ UNCHANGED <<data, CONFIG, net, faultsLeft, delayMs, i, task, report, rows, finalReport, finalRows>>
       ELSE LoopFrom(0)

\* the delay(CONFIG.CHUNK_DELAY) timer fired: next iteration, or return and write
\* (first with the timer armed before the await of the chunk, not after it)
ChunkDelayElapsed_Early ==
    /\ pc \in {"awaitChunk", "delay"}
    /\ LoopFrom(i + CONFIG.CHUNK_SIZE)

ChunkDelayElapsed ==
    /\ pc = "delay"
    /\ delayMs = CHUNK_DELAY
    /\ LoopFrom(i + CONFIG.CHUNK_SIZE)

\* res.on("end") of row k's request
ResponseEnd(k) ==
    /\ task[k].st = "request"
    /\ \E res \in (IF net[task[k].urlToParse] = <<>> THEN Responses ELSE {net[task[k].urlToParse][1]}) :
          /\ net' = [net EXCEPT ![task[k].urlToParse] = <<res>>]
          /\ TaskTurn(k, checkContinue(task[k], HopResult(res), CONFIG.MAX_REDIRECTIONS))
    /\ UNCHANGED faultsLeft

\* req.on("error") of row k's request with error.code = code
RequestError(k, code) ==
    /\ task[k].st = "request"
    /\ faultsLeft > 0
    /\ faultsLeft' = faultsLeft - 1
    /\ TaskTurn(k, onRequestError(task[k], code))
    /\ UNCHANGED net

\* the backoff timer of row k fired
BackoffElapsed(k) ==
    /\ task[k].st = "backoff"
    /\ TaskTurn(k, onBackoffElapsed(task[k]))
    /\ UNCHANGED <<net, faultsLeft>>

\* the socket of row k's request was idle for REQUEST_TIMEOUT: the "timeout"
\* event is emitted; the request has no listener for it and stays in flight
SocketTimeout(k) ==
    /\ task[k].st = "request"
    /\ ~task[k].timedOut
    /\ faultsLeft > 0
    /\ faultsLeft' = faultsLeft - 1
    /\ task' = [k2 \in Rows |-> IF k2 = k THEN [task[k] EXCEPT !.timedOut = TRUE, !.settledFetch = <<>>]
                                 ELSE Older(task[k2])]
    /\ UNCHANGED <<data, CONFIG, net, pc, delayMs, i, report, rows, finalReport, finalRows>>

(* ------------------------------- inputs ------------------------------- *)
MAX_REDIRECTIONS == 3
UnknownNet == [u \in Urls |-> <<>>]

\* a row from "a" to any destination, present or not, and rows with an
\* unparseable, empty or missing source
SingleItems ==
    [src : {"a"}, destination : Urls \cup {"", undefined}]
        \cup [src : {BadUrl, "", undefined}, destination : {"b"}]

\* one row resolved against every network, for every configured hop limit
InitSingle ==
    /\ data \in {<<item>> : item \in SingleItems}
    /\ CONFIG \in [CHUNK_SIZE : {1}, MAX_REDIRECTIONS : 0..MaxMaxRedirections]
    /\ net = UnknownNet
    /\ faultsLeft = MAX_RETRIES + 1

\* "a" redirects permanently to "b", "b" answers 200, "c" redirects to a
\* location that is no absolute URL
BatchNet ==
    [u \in Urls |-> <<CASE u = "a" -> [statusCode |-> 301, location |-> "b"]
                        [] u = "b" -> [statusCode |-> 200, location |-> undefined]
                        [] OTHER   -> [statusCode |-> 302, location |-> BadUrl]>>]

BatchItems ==
    {[src |-> "a", destination |-> "b"], [src |-> "b", destination |-> "b"],
     [src |-> BadUrl, destination |-> "b"], [src |-> "", destination |-> "b"]}

\* a list of rows processed in chunks against a fixed network
InitBatch ==
    /\ data \in UNION {[1..n -> BatchItems] : n \in 0..MaxRows}
    /\ CONFIG \in [CHUNK_SIZE : 1..MaxChunkSize, MAX_REDIRECTIONS : {MAX_REDIRECTIONS}]
    /\ net = BatchNet
    /\ faultsLeft = MaxFaults

\* "a" redirects permanently to "b"; "b" and "c" answer 200
ReportNet ==
    [u \in Urls |-> <<IF u = "a" THEN [statusCode |-> 301, location |-> "b"]
                                 ELSE [statusCode |-> 200, location |-> undefined]>>]

\* a valid row, and invalid rows of two sources, two of them of one source
ReportItems ==
    {[src |-> "a", destination |-> "b"], [src |-> "b", destination |-> "b"],
     [src |-> "c", destination |-> "b"], [src |-> "c", destination |-> "a"]}

\* a list of rows that all resolve, on a reliable network
InitReport ==
    /\ data \in UNION {[1..n -> ReportItems] : n \in 1..MaxReportRows}
    /\ CONFIG \in [CHUNK_SIZE : 1..MaxChunkSize, MAX_REDIRECTIONS : {MAX_REDIRECTIONS}]
    /\ net = ReportNet
    /\ faultsLeft = 0

Init ==
    /\ InitSingle \/ InitBatch \/ InitReport
    /\ pc = "getData"
    /\ delayMs = 0
    /\ i = 0
    /\ task = [k \in Rows |-> IdleTask]
    /\ report = EmptyReport
    /\ rows = <<>>
    /\ finalReport = <<>>
    /\ finalRows = <<>>

Next ==
    \/ getData
    \/ ChunkDelayElapsed
    \/ \E k \in Rows : ResponseEnd(k)
    \/ \E k \in Rows, code \in ErrorCodes : RequestError(k, code)
    \/ \E k \in Rows : BackoffElapsed(k)
    \/ \E k \in Rows : SocketTimeout(k)

Spec == Init /\ [][Next]_vars


\* Fairness the runtime guarantees: a pending timer fires and a runnable
\* continuation runs.  Nothing obliges the network to answer or to fail.
FairSpec ==
    /\ Spec
    /\ WF_vars(getData)
    /\ WF_vars(ChunkDelayElapsed)
    /\ \A k \in 1..MaxRows : WF_vars(k \in Rows /\ BackoffElapsed(k))
    /\ \A k \in 1..MaxRows : WF_vars(k \in Rows /\ SocketTimeout(k))

(* ------------------------------- claims ------------------------------- *)
\* the outcomes checkURL has produced
HasOutcome(k) == task[k].result # <<>>
Outcome(k) == task[k].result[1]
CountsAgree(rep) ==
    /\ rep.result.total = rep.result.valid + rep.result.invalid
    /\ rep.result.total = Len(rep.urls)

\* C1: in every state of a run the report has total = valid + invalid =
\* length(urls), and so has the report that is written.
Thm_C1 ==
    /\ CountsAgree(report)
    /\ finalReport # <<>> => CountsAgree(finalReport[1])

\* a written report with a valid and an invalid outcome, after a failed row
Wit_C1 ==
    /\ finalReport # <<>>
    /\ finalReport[1].result.valid >= 1
    /\ finalReport[1].result.invalid >= 1
    /\ \E k \in Rows : task[k].st = "rejected"

\* C2: every outcome has is_valid exactly when dest_actual = dest_wanted,
\* redirectCounter = 1, the first chain entry's code is 301 or 308, and
\* code = 200.
Thm_C2 ==
    \A k \in Rows : HasOutcome(k) =>
        (Outcome(k).is_valid <=>
            /\ Outcome(k).dest_actual = Outcome(k).dest_wanted
            /\ Outcome(k).redirectCounter = 1
            /\ Len(Outcome(k).redirectsList) >= 1
            /\ Outcome(k).redirectsList[1].code \in {301, 308}
            /\ Outcome(k).code = 200)

\* a valid outcome reached through a 308
Wit_C2 ==
    \E k \in Rows : HasOutcome(k) /\ Outcome(k).is_valid /\ Outcome(k).redirectsList[1].code = 308

\* the hop-limit statement for the rows resolved so far
HopLimitHolds ==
    \A k \in Rows :
        /\ task[k].redirectionsCount <= CONFIG.MAX_REDIRECTIONS
        /\ HasOutcome(k) =>
              /\ Outcome(k).redirectCounter <= CONFIG.MAX_REDIRECTIONS
              /\ task[k].terminal = "hoplimit" =>
                    ~Outcome(k).is_valid /\ Outcome(k).redirectCounter = CONFIG.MAX_REDIRECTIONS

\* C3 as stated: for any configured maxRedirections the outcome's
\* redirectCounter never exceeds it, and a chain cut at the limit ends invalid
\* with redirectCounter = maxRedirections.
Orig_C3 == HopLimitHolds

\* C3 amended: the same for any configured maxRedirections >= 1.
Thm_C3 == CONFIG.MAX_REDIRECTIONS >= 1 => HopLimitHolds

\* a redirect loop cut at a limit of 3
Wit_C3 ==
    \E k \in Rows :
        /\ HasOutcome(k) /\ task[k].terminal = "hoplimit"
        /\ CONFIG.MAX_REDIRECTIONS = 3
        /\ Outcome(k).redirectCounter = 3
        /\ Outcome(k).dest_actual = Outcome(k).source

\* C4: no resolution of a later chunk is started while a resolution of an
\* earlier chunk is unsettled.
Orig_C4 ==
    \A k1 \in Rows, k2 \in Rows :
        (ChunkOf(k1) < ChunkOf(k2) /\ task[k2].st \notin {"idle", "skipped"}) => ~InFlight(task[k1])

\* C5: at most CHUNK_SIZE resolutions are in flight at any time.
Orig_C5 == Cardinality({k \in Rows : InFlight(task[k])}) <= CONFIG.CHUNK_SIZE

\* C6: once the report is written, every row with both URLs was started and
\* every row whose resolution succeeded has its outcome in it exactly once,
\* whichever other rows failed.
Orig_C6 ==
    pc = "done" =>
        \A k \in Rows :
            /\ (~Falsy(data[k].src) /\ ~Falsy(data[k].destination)) => task[k].st # "idle"
            /\ task[k].st = "resolved" => Cardinality({j \in 1..Len(finalRows) : finalRows[j] = k}) = 1

\* the getHeaders calls that settled in row k's latest turn
SettledFetches(k) == {task[k].settledFetch[j] : j \in 1..Len(task[k].settledFetch)}

\* C7: a fetch issues at most MAX_RETRIES + 1 requests; one that is answered
\* after transient failures resolves with the answer; one that rejects with a
\* transient error has failed MAX_RETRIES + 1 times.
Thm_C7 ==
    \A k \in Rows :
        /\ task[k].requests <= MAX_RETRIES + 1
        /\ \A f \in SettledFetches(k) :
              /\ f.requests <= MAX_RETRIES + 1
              /\ f.outcome = "resolved" =>
                    /\ f.requests = f.fails + 1
                    /\ f.fails <= MAX_RETRIES
                    /\ net[f.url] # <<>>
                    /\ f.statusCode = net[f.url][1].statusCode
                    /\ \/ f.location = net[f.url][1].location
                       \/ f.location = null /\ net[f.url][1].location = undefined
              /\ (f.outcome = "rejected" /\ f.error \in TransientCodes) =>
                    f.fails = MAX_RETRIES + 1 /\ f.requests = MAX_RETRIES + 1

\* a fetch answered after MAX_RETRIES - 1 transient failures
Wit_C7 ==
    \E k \in Rows : \E f \in SettledFetches(k) :
        f.outcome = "resolved" /\ f.fails = MAX_RETRIES - 1 /\ f.requests = MAX_RETRIES

\* C8: an unparseable URL rejects without a request and without a wait; a
\* non-transient request error rejects with no request after it (after exactly
\* one request when it is the first error); the error reaches checkURL's caller.
Thm_C8 ==
    \A k \in Rows : \A f \in SettledFetches(k) :
        f.outcome = "rejected" =>
            /\ f.error = ERR_INVALID_URL => (f.requests = 0 /\ f.waits = 0 /\ f.fails = 0)
            /\ f.error \in (ErrorCodes \ TransientCodes) =>
                  /\ f.requests = f.waits + 1
                  /\ f.waits = f.fails
                  /\ f.fails = 0 => f.requests = 1
            /\ f.error \in {ERR_INVALID_URL} \cup ErrorCodes
            /\ task[k].st = "rejected"
            /\ task[k].error = f.error

\* a first request that failed with a non-transient error
Wit_C8 ==
    \E k \in Rows : \E f \in SettledFetches(k) :
        f.outcome = "rejected" /\ f.error = "ENOTFOUND" /\ f.requests = 1

\* C9: checkURL rejects exactly when one of its fetches rejected, with that
\* fetch's error; anything else yields an outcome; it settles exactly once.
Thm_C9 ==
    \A k \in Rows :
        /\ task[k].st = "rejected" <=> task[k].fetchError # ""
        /\ task[k].st = "rejected" => (task[k].error = task[k].fetchError /\ task[k].result = <<>>)
        /\ \A f \in SettledFetches(k) :
              f.outcome = "rejected" => (task[k].st = "rejected" /\ task[k].error = f.error)
        /\ task[k].st = "resolved" => (HasOutcome(k) /\ task[k].error = "")
        /\ task[k].settles = (IF task[k].st \in {"resolved", "rejected"} THEN 1 ELSE 0)
        /\ HasOutcome(k) => task[k].st = "resolved"

\* a resolution that failed on the fetch of a redirect target
Wit_C9 ==
    \E k \in Rows :
        /\ task[k].st = "rejected"
        /\ task[k].redirectionsCount = 2
        /\ task[k].error = "ECONNRESET"

\* C10: every request in flight eventually settles, even when the server
\* never answers.
Orig_C10 ==
    \A k \in 1..MaxRows :
        (k \in Rows /\ task[k].st = "request") ~> (k \in Rows /\ task[k].st # "request")

\* a row the callback's guard (!sourceUrl || !destinationUrl) returns on
Skippable(k) == Falsy(data[k].src) \/ Falsy(data[k].destination)

\* the rows whose resolution produced an outcome
ResolvedRows == {k \in Rows : task[k].st = "resolved"}

\* C11: a row with an empty or missing source or destination is never
\* fetched and never resolved, and has no entry in the report: total and the
\* length of urls count the resolved rows, none of which is such a row.
Thm_C11 ==
    /\ \A k \in Rows : Skippable(k) =>
          /\ task[k].st \in {"idle", "skipped"}
          /\ task[k].fetches = 0
          /\ task[k].requests = 0
          /\ \A j \in 1..Len(rows) : rows[j] # k
          /\ \A j \in 1..Len(finalRows) : finalRows[j] # k
    /\ report.result.total = Cardinality(ResolvedRows)
    /\ Len(report.urls) = Cardinality(ResolvedRows)
    /\ \A k \in ResolvedRows : ~Skippable(k)

\* a written report of a run that skipped one row and resolved another
Wit_C11 ==
    /\ finalReport # <<>>
    /\ \E k \in Rows : Skippable(k) /\ task[k].st = "skipped"
    /\ \E k \in Rows : task[k].st = "resolved"
    /\ finalReport[1].result.total < Len(data)

\* the entries of the collected and of the written report that belong to row k
EntriesOf(k) == {j \in 1..Len(rows) : rows[j] = k}
FinalEntriesOf(k) == {j \in 1..Len(finalRows) : finalRows[j] = k}

\* this step runs an iteration of the for loop whose chunk.map calls the
\* callback, and with it checkURL, for row k
CallbackStarts(k) ==
    /\ \/ pc = "getData" /\ Len(data) > 0
       \/ pc = "delay" /\ i' # i
    /\ k \in ChunkRows(i')

\* what a step may do to a row that failed or was already started
FailureIsFinal ==
    \A k \in Rows :
        \* the turn in which row k fails changes nothing in the report
        /\ (task[k].st # "rejected" /\ task'[k].st = "rejected") => report' = report
        \* a failed row stays failed: it is not resolved again
        /\ task[k].st = "rejected" => (task'[k].st = "rejected" /\ task'[k].result = <<>>)
        \* checkURL is called for a row at most once: never for a started row
        /\ CallbackStarts(k) => task[k].st = "idle"
        /\ task[k].st # "idle" => task'[k].st # "idle"

\* C12: a failed resolution changes nothing in the report and is never run
\* again; checkURL is called at most once per row; the report holds at most
\* one outcome per row, none for a failed row, and total never exceeds the
\* number of rows.
Thm_C12 ==
    /\ [](/\ \A k \in Rows : /\ Cardinality(EntriesOf(k)) <= 1
                             /\ Cardinality(FinalEntriesOf(k)) <= 1
                             /\ task[k].st = "rejected" => (EntriesOf(k) = {} /\ FinalEntriesOf(k) = {})
          /\ report.result.total <= Len(data)
          /\ Len(report.urls) <= Len(data))
    /\ [][FailureIsFinal]_vars

\* a row of the first chunk failed, rows of later chunks were resolved after
\* it and the report was written without it
Wit_C12 ==
    /\ pc = "done"
    /\ \E k1 \in Rows, k2 \in Rows :
          /\ ChunkOf(k1) < ChunkOf(k2)
          /\ task[k1].st = "rejected"
          /\ task[k2].st = "resolved"
    /\ finalReport[1].result.total = Len(data) - 1

\* invalid before valid, and ascending source among equal validity
SortedUrls(urls) ==
    \A j1 \in 1..Len(urls), j2 \in 1..Len(urls) :
        j1 < j2 =>
            /\ ~(urls[j1].is_valid /\ ~urls[j2].is_valid)
            /\ urls[j1].is_valid = urls[j2].is_valid =>
                  localeCompare(urls[j1].source, urls[j2].source) <= 0

\* C13: the written urls have every invalid outcome before every valid one
\* and ascending sources among equal validity, and are a permutation of the
\* outcomes processUrls had collected when it returned (each with its status
\* added): nothing added, nothing dropped.
Thm_C13 ==
    finalReport # <<>> =>
        /\ SortedUrls(finalReport[1].urls)
        /\ Len(finalReport[1].urls) = Len(finalRows)
        /\ Len(finalRows) <= Len(rows)
        /\ \A m \in 1..Len(finalRows) :
              \E j \in 1..Len(finalRows) :
                  /\ finalRows[j] = rows[m]
                  /\ finalReport[1].urls[j] = formatUrl(report.urls[m])
                  /\ \A j2 \in 1..Len(finalRows) : finalRows[j2] = rows[m] => j2 = j

\* a written report of three outcomes collected in the order valid, invalid
\* of "c", invalid of "b"
Wit_C13 ==
    /\ finalReport # <<>>
    /\ Len(report.urls) = 3
    /\ report.urls[1].is_valid
    /\ ~report.urls[2].is_valid /\ report.urls[2].source = "c"
    /\ ~report.urls[3].is_valid /\ report.urls[3].source = "b"
    /\ finalRows = <<rows[3], rows[2], rows[1]>>

\* the parsed input has no row with both a source and a destination
NoUsableRows == \A k \in Rows : Skippable(k)

\* C14: an input with no usable row never leads to a fetch, to a normal
\* completion or to a written report.
Orig_C14 ==
    NoUsableRows =>
        /\ pc # "done"
        /\ finalReport = <<>>
        /\ \A k \in Rows : task[k].fetches = 0 /\ task[k].requests = 0

\* the outcome of checkURL(src, dest_wanted, maxRedirections) when every fetch
\* is answered from the static mapping n: <<outcome>>, or <<>> when a fetched
\* URL does not parse or has no known answer
RECURSIVE ResolveStatic(_, _, _, _, _, _)
ResolveStatic(src, dest_wanted, maxRedirections, n, headers, list) ==
    LET URLToCheck == IF headers # <<>> THEN headers[1].location ELSE src
        list1 == IF headers # <<>> /\ ~Falsy(headers[1].location)
                 THEN Append(list, [location |-> headers[1].location, code |-> headers[1].statusCode])
                 ELSE list
    IN  IF headers # <<>> /\ HopLimitReached(Len(list1), maxRedirections)
        THEN <<[code |-> headers[1].statusCode, source |-> src, dest_wanted |-> dest_wanted,
                dest_actual |-> headers[1].location, redirectCounter |-> Len(list1),
                redirectsList |-> list1, is_valid |-> FALSE]>>
        ELSE IF ~Parseable(URLToCheck) THEN <<>>
        ELSE IF n[URLToCheck] = <<>> THEN <<>>
        ELSE IF ~Falsy(HopResult(n[URLToCheck][1]).location)
             THEN ResolveStatic(src, dest_wanted, maxRedirections, n,
                                <<HopResult(n[URLToCheck][1])>>, list1)
             ELSE <<[code |-> n[URLToCheck][1].statusCode, source |-> src, dest_wanted |-> dest_wanted,
                     dest_actual |-> URLToCheck, redirectCounter |-> Len(list1),
                     redirectsList |-> list1,
                     is_valid |-> isRedirectValid(URLToCheck, dest_wanted, list1, Len(list1),
                                                  n[URLToCheck][1].statusCode)]>>

\* C15: the outcome of a resolution is a function of source, expected
\* destination, maxRedirections and the static mapping alone: two rows with
\* the same source and destination get outcomes equal in every field,
\* however their resolutions interleave with each other and with others.
Thm_C15 ==
    /\ \A k \in Rows : HasOutcome(k) =>
          <<Outcome(k)>> = ResolveStatic(data[k].src, data[k].destination,
                                         CONFIG.MAX_REDIRECTIONS, net, <<>>, <<>>)
    /\ \A k1 \in Rows, k2 \in Rows :
          (data[k1] = data[k2] /\ HasOutcome(k1) /\ HasOutcome(k2)) => Outcome(k1) = Outcome(k2)

\* two rows with the same URLs resolved concurrently through a redirect, the
\* one started second completing first
Wit_C15 ==
    \E k1 \in Rows, k2 \in Rows :
        /\ k1 < k2 /\ ChunkOf(k1) = ChunkOf(k2)
        /\ data[k1] = data[k2]
        /\ HasOutcome(k1) /\ HasOutcome(k2)
        /\ Outcome(k1).redirectCounter = 1
        /\ Len(rows) >= 2 /\ rows[1] = k2 /\ rows[2] = k1

\* the outcomes of the first n rows as collected when the resolutions
\* complete in the order of the input
RECURSIVE InputOrderUrls(_)
InputOrderUrls(n) ==
    IF n = 0 THEN <<>>
    ELSE IF task[n].st = "resolved" THEN Append(InputOrderUrls(n - 1), Outcome(n))
    ELSE InputOrderUrls(n - 1)

\* C16: the written urls of a run in which no row failed are those of the
\* run on the same input whose resolutions complete in input order, whatever
\* the order in which they completed.
Orig_C16 ==
    (pc = "done" /\ \A k \in Rows : task[k].st \in {"resolved", "skipped"}) =>
        finalReport[1].urls =
            makeFinalReport([result |-> report.result, urls |-> InputOrderUrls(Len(data))]).urls

\* this step calls the chunk callback of row k
RowStarts(k) == task[k].st = "idle" /\ task'[k].st # "idle"

\* the await of the chunk at index i ended, normally or by a rejection, and
\* the delay(CHUNK_DELAY) timer armed after it is pending
PauseAfterChunk ==
    /\ pc = "delay"
    /\ delayMs = CHUNK_DELAY
    /\ awaitAll(i, task) = "delay"

\* C17: a row of a chunk after the first is started only by the firing of
\* the CHUNK_DELAY timer that was armed after the await of the chunk before
\* it ended, normally or through the catch; while a chunk is awaited no such
\* timer is pending.
Thm_C17 ==
    /\ [](pc = "delay" => PauseAfterChunk)
    /\ [](pc = "awaitChunk" => (delayMs = 0 /\ awaitAll(i, task) = "awaitChunk"))
    /\ [][\A k \in Rows :
             (RowStarts(k) /\ ChunkOf(k) > 0) =>
                 /\ PauseAfterChunk
                 /\ ChunkOf(k) = (i \div CONFIG.CHUNK_SIZE) + 1
                 /\ i' = i + CONFIG.CHUNK_SIZE]_vars

\* the second chunk is running after the first was left through the catch
\* with one of its resolutions unsettled
Wit_C17 ==
    /\ i = CONFIG.CHUNK_SIZE
    /\ \E k \in Rows : ChunkOf(k) = 0 /\ task[k].st = "rejected"
    /\ \E k \in Rows : ChunkOf(k) = 0 /\ task[k].st = "request"
    /\ \E k \in Rows : ChunkOf(k) = 1 /\ task[k].st = "request"

\* what a step may do to the retries of a fetch
RetryAfterWait ==
    \A k \in Rows :
        \* a failed attempt that is retried arms the wait of its attempt number
        /\ (task[k].st = "request" /\ task'[k].st = "backoff") =>
              /\ task'[k].retryCount = task[k].retryCount
              /\ task'[k].urlToParse = task[k].urlToParse
              /\ task'[k].requests = task[k].requests
              /\ task'[k].backoffTime = INITIAL_BACKOFF * (2 ^ task[k].retryCount)
        \* while the wait is pending nothing but its timer acts on the fetch,
        \* and the timer issues the next attempt for the same URL
        /\ task[k].st = "backoff" =>
              \/ task'[k] = Older(task[k])
              \/ /\ task'[k].st = "request"
                 /\ task'[k].urlToParse = task[k].urlToParse
                 /\ task'[k].retryCount = task[k].retryCount + 1
                 /\ task'[k].requests = task[k].requests + 1
        \* a retry request is issued by nothing else
        /\ (task'[k].st = "request" /\ task'[k].retryCount > 0 /\ task'[k].requests # task[k].requests) =>
              task[k].st = "backoff"

\* C18: the wait armed after failed attempt number k is INITIAL_BACKOFF * 2^k
\* (1000, 2000 and 4000 ms with the defaults); the retry is issued for the
\* same URL, by the timer of that wait and by nothing else.
Thm_C18 ==
    /\ [](\A k \in Rows :
             /\ task[k].st = "backoff" =>
                   /\ task[k].retryCount = task[k].fails - 1
                   /\ task[k].retryCount \in 0..(MAX_RETRIES - 1)
                   /\ task[k].backoffTime = INITIAL_BACKOFF * (2 ^ task[k].retryCount)
                   /\ task[k].backoffTime = <<1000, 2000, 4000>>[task[k].retryCount + 1]
             /\ task[k].st # "backoff" => task[k].backoffTime = 0
             /\ task[k].st = "request" => task[k].requests = task[k].retryCount + 1)
    /\ [][RetryAfterWait]_vars

\* the third wait of a fetch is pending
Wit_C18 ==
    \E k \in Rows :
        /\ task[k].st = "backoff"
        /\ task[k].retryCount = 2
        /\ task[k].backoffTime = 4000
        /\ task[k].waits = 3

\* the chain list records a traversal of the static network from src: entry j
\* is what the URL fetched as number j answered
IsTraversal(src, list) ==
    \A j \in 1..Len(list) :
        LET from == IF j = 1 THEN src ELSE list[j - 1].location
        IN  /\ Parseable(from)
            /\ net[from] # <<>>
            /\ list[j].location = net[from][1].location
            /\ list[j].code = net[from][1].statusCode

\* the chain of a resolution grows by appending one entry at a time
ChainAppendOnly ==
    \A k \in Rows :
        /\ Len(task'[k].redirectionsList) \in {Len(task[k].redirectionsList),
                                               Len(task[k].redirectionsList) + 1}
        /\ SubSeq(task'[k].redirectionsList, 1, Len(task[k].redirectionsList)) =
               task[k].redirectionsList
        /\ HasOutcome(k) => task'[k].result = task[k].result

\* C19: in every state of a resolution redirectionsCount is the length of
\* redirectionsList and the list is the traversal so far; the list only grows
\* by appending; every outcome has redirectCounter = length(redirectsList),
\* the list of its resolution, and dest_actual is the location of the last
\* entry, or the source when the chain is empty.
Thm_C19 ==
    /\ [](\A k \in Rows :
             /\ task[k].redirectionsCount = Len(task[k].redirectionsList)
             /\ IsTraversal(task[k].src, task[k].redirectionsList)
             /\ HasOutcome(k) =>
                   /\ Outcome(k).redirectCounter = Len(Outcome(k).redirectsList)
                   /\ Outcome(k).redirectsList = task[k].redirectionsList
                   /\ Outcome(k).dest_actual =
                          IF Len(Outcome(k).redirectsList) > 0
                          THEN Outcome(k).redirectsList[Len(Outcome(k).redirectsList)].location
                          ELSE Outcome(k).source)
    /\ [][ChainAppendOnly]_vars

\* an outcome reached through two redirects that ends away from its source
Wit_C19 ==
    \E k \in Rows :
        /\ HasOutcome(k)
        /\ task[k].terminal = "natural"
        /\ Len(Outcome(k).redirectsList) = 2
        /\ Outcome(k).dest_actual = Outcome(k).redirectsList[2].location
        /\ Outcome(k).dest_actual # Outcome(k).source

\* max(1, maxRedirections)
MaxFetches(maxRedirections) == IF maxRedirections > 1 THEN maxRedirections ELSE 1

\* checkURL was called for row k
Started(k) == task[k].st \notin {"idle", "skipped"}

\* C20: a resolution issues at least one and at most max(1, maxRedirections)
\* getHeaders calls, a retried fetch counting once, whatever the topology; it
\* has settled as soon as none of its fetches is pending.
Thm_C20 ==
    \A k \in Rows :
        /\ Started(k) =>
              /\ task[k].fetches >= 1
              /\ task[k].fetches <= MaxFetches(CONFIG.MAX_REDIRECTIONS)
              /\ InFlight(task[k]) \/ task[k].st \in {"resolved", "rejected"}
        /\ ~Started(k) => task[k].fetches = 0
        /\ task[k].st = "resolved" => task[k].fetches = task[k].redirectionsCount + 
                                         (IF task[k].terminal = "natural" THEN 1 ELSE 0)

\* a URL that redirects to itself, cut after maxRedirections = 3 fetches
Wit_C20 ==
    \E k \in Rows :
        /\ task[k].st = "resolved"
        /\ task[k].terminal = "hoplimit"
        /\ task[k].fetches = 3
        /\ \A j \in 1..Len(task[k].redirectionsList) :
              task[k].redirectionsList[j].location = task[k].src


====
